---- MODULE Spec2Model ----
(***************************************************************************)
(* The escrow program of programs/escrow/src/lib.rs as a state machine.    *)
(*                                                                         *)
(* State: the escrow metadata accounts (EscrowAccount), their token vaults *)
(* (escrow_token_account), the token accounts the instructions move        *)
(* tokens between, and the asset mint's supply.  One action per            *)
(* instruction: tender, tender_from_mint, purchase, purchase_partial,      *)
(* cancel, burn.  An instruction that returns Err leaves the accounts as   *)
(* they were (the runtime discards the writes of a failed transaction).    *)
(*                                                                         *)
(* u64 is scaled down to 0..U64_MAX so that wrap-around is within reach.   *)
(***************************************************************************)
EXTENDS Integers, Sequences, FiniteSets, TLC

VARIABLES
    escrow_account,        \* PDA -> EscrowAccount (with whether it is initialised)
    escrow_token_account,  \* PDA -> the vault, the PDA's associated token account
    sell_from_account,     \* depositor -> balance of the depositor's asset account
    buy_to_account,        \* the receiver's asset account
    buy_from_account,      \* the buyer's payment account
    seller_proceeds_account, \* the proceeds account (payment mint)
    mint_supply,           \* supply of the asset mint
    overflow_checks,       \* whether the build panics on arithmetic overflow
    track,                 \* which history the behaviour keeps: "last", "first" or none
    depositor,             \* the depositor whose escrow accounts the behaviour follows
    first,                 \* history: PDA -> the first deposit of the open record
    fills,                 \* history: PDA -> the purchases since the last deposit or burn
    last,                  \* history: the instruction just processed and its result
    pure_call,             \* a call of a pure function under test, and its result
    tx                     \* caller -> the purchase_partial in flight, step by step

vars == <<escrow_account, escrow_token_account, sell_from_account, buy_to_account,
          buy_from_account, seller_proceeds_account, mint_supply, overflow_checks,
          track, depositor, first, fills, last, pure_call, tx>>

---------------------------------------------------------------------------
(* Bounds *)

\* The largest u64 of the model: u64 arithmetic is arithmetic on 0..U64_MAX.
U64_MAX == 5
\* The asset tokens the seller holds at the start.
SellerFunds == 2
\* The largest cost and quantity an instruction is called with.
MaxCost == 3
MaxQty == 2
\* The asset tokens tender_from_mint may mint in all.
MintCap == 1

U64 == 0..U64_MAX
U128_MAX == (U64_MAX + 1) * (U64_MAX + 1) - 1

CostArgs == 0..MaxCost
QtyArgs == 0..MaxQty

---------------------------------------------------------------------------
(* Identities and addresses *)

Depositors == {"seller", "payer"}
\* The owner of the one seller_proceeds_account of the model.
ProceedsOwner == "seller"
\* The bump seeds for which the seeds give a program address: the canonical
\* one, which find_program_address returns, and a lower one.
Bumps == {254, 255}

\* Mutant: the address is derived from the five seeds alone, whatever bump
\* seed the caller passes.
pda_ignoring_bump(fifth_seed, bump_seed) == <<fifth_seed, 255>>

\* The escrow account's address: the five seeds (of which only the depositor
\* varies here) and the bump.
PDA(fifth_seed, bump_seed) == <<fifth_seed, bump_seed>>
Addrs == {PDA(d, b) : d \in Depositors, b \in Bumps}
DepositorOf(a) == a[1]
BumpOf(a) == a[2]

\* #[derive(Default)] EscrowAccount, not initialised.
NoEscrow == [init |-> FALSE, total_purchase_cost |-> 0, bump_seed |-> 0]
NoVault == [init |-> FALSE, amount |-> 0]

Ledger == [escrow_account |-> escrow_account,
           escrow_token_account |-> escrow_token_account,
           sell_from_account |-> sell_from_account,
           buy_to_account |-> buy_to_account,
           buy_from_account |-> buy_from_account,
           seller_proceeds_account |-> seller_proceeds_account,
           mint_supply |-> mint_supply]

Ok(L) == [result |-> "Ok", st |-> L]
Err(e, L) == [result |-> e, st |-> L]

---------------------------------------------------------------------------
(* Arithmetic *)

\* u128::checked_mul: None on overflow.
checked_mul(x, y) == IF x * y > U128_MAX THEN [some |-> FALSE, v |-> 0]
                     ELSE [some |-> TRUE, v |-> x * y]

\* u128::checked_div: None on division by zero.
checked_div(x, y) == IF y = 0 THEN [some |-> FALSE, v |-> 0]
                     ELSE [some |-> TRUE, v |-> x \div y]

\* u64 `+=`: a panic in a build with overflow checks, wrap-around otherwise.
add_assign(x, y) ==
    IF x + y <= U64_MAX THEN [panic |-> FALSE, v |-> x + y]
    ELSE IF overflow_checks THEN [panic |-> TRUE, v |-> x]
    ELSE [panic |-> FALSE, v |-> (x + y) % (U64_MAX + 1)]

\* u64::checked_sub: None on underflow.
checked_sub(x, y) == IF y > x THEN [some |-> FALSE, v |-> 0]
                     ELSE [some |-> TRUE, v |-> x - y]

---------------------------------------------------------------------------
(* The pure checks *)

\* Mutant: the cross products are computed in u64 and wrap around.
check_tender_args_wrapping(current_cost, add_cost, current_qty, add_qty) ==
    IF add_cost = 0 \/ add_qty = 0 THEN "InvalidArgument"
    ELSE IF (current_qty * add_cost) % (U64_MAX + 1) # (current_cost * add_qty) % (U64_MAX + 1)
        THEN "InvalidArgument"
    ELSE "Ok"

_check_tender_args(current_cost, add_cost, current_qty, add_qty) ==
    IF add_cost = 0 \/ add_qty = 0 THEN "InvalidArgument"
    ELSE LET lhs == checked_mul(current_qty, add_cost)
             rhs == checked_mul(current_cost, add_qty)
         IN IF ~lhs.some \/ ~rhs.some THEN "InvalidArgument"
            ELSE IF lhs.v # rhs.v THEN "InvalidArgument"
            ELSE "Ok"

\* Mutant: the quotient is returned without the exact-division check.
get_purchase_cost_rounding(qty, total_qty, total_cost) ==
    IF qty = 0 \/ qty > total_qty THEN [result |-> "InvalidArgument", cost |-> 0]
    ELSE LET prod == checked_mul(qty, total_cost)
             quot == IF prod.some THEN checked_div(prod.v, total_qty) ELSE prod
         IN IF ~quot.some \/ quot.v > U64_MAX
                THEN [result |-> "InvalidArgument", cost |-> 0]
            ELSE [result |-> "Ok", cost |-> quot.v]

\* Mutant: a quotient that is not exact is rounded up.
get_purchase_cost_ceiling(qty, total_qty, total_cost) ==
    IF qty = 0 \/ qty > total_qty THEN [result |-> "InvalidArgument", cost |-> 0]
    ELSE LET prod == checked_mul(qty, total_cost)
             quot == (prod.v + total_qty - 1) \div total_qty
         IN IF ~prod.some \/ quot > U64_MAX
                THEN [result |-> "InvalidArgument", cost |-> 0]
            ELSE [result |-> "Ok", cost |-> quot]

_get_purchase_cost(qty, total_qty, total_cost) ==
    IF qty = 0 \/ qty > total_qty THEN [result |-> "InvalidArgument", cost |-> 0]
    ELSE LET prod == checked_mul(qty, total_cost)
             quot == IF prod.some THEN checked_div(prod.v, total_qty) ELSE prod
             lhs == checked_mul(total_qty, quot.v)
             rhs == checked_mul(qty, total_cost)
         IN IF ~quot.some \/ ~lhs.some \/ ~rhs.some
                THEN [result |-> "InvalidArgument", cost |-> 0]
            ELSE IF lhs.v # rhs.v THEN [result |-> "InvalidArgument", cost |-> 0]
            ELSE IF quot.v > U64_MAX THEN [result |-> "InvalidArgument", cost |-> 0]
            ELSE [result |-> "Ok", cost |-> quot.v]

---------------------------------------------------------------------------
(* The token program, as the instructions call it *)

\* token::transfer of the asset from a depositor's account into the vault.
transfer_to_vault(L, a, from, amount) ==
    IF L.sell_from_account[from] < amount THEN Err("TokenError::InsufficientFunds", L)
    ELSE Ok([L EXCEPT !.sell_from_account[from] = @ - amount,
                      !.escrow_token_account[a].amount = @ + amount])

\* token::mint_to into the vault.
mint_to_vault(L, a, amount) ==
    IF L.mint_supply + amount > U64_MAX THEN Err("Overflow", L)
    ELSE Ok([L EXCEPT !.mint_supply = @ + amount,
                      !.escrow_token_account[a].amount = @ + amount])

\* token::transfer of the payment from the buyer to the proceeds account.
transfer_payment(L, amount) ==
    IF L.buy_from_account < amount THEN Err("TokenError::InsufficientFunds", L)
    ELSE Ok([L EXCEPT !.buy_from_account = @ - amount,
                      !.seller_proceeds_account = @ + amount])

\* token::transfer of the asset from the vault to the receiver's account.
transfer_to_receiver(L, a, amount) ==
    IF L.escrow_token_account[a].amount < amount THEN Err("TokenError::InsufficientFunds", L)
    ELSE Ok([L EXCEPT !.escrow_token_account[a].amount = @ - amount,
                      !.buy_to_account = @ + amount])

\* token::transfer of the asset from the vault to a depositor's account.
transfer_to_depositor(L, a, to, amount) ==
    IF L.escrow_token_account[a].amount < amount THEN Err("TokenError::InsufficientFunds", L)
    ELSE Ok([L EXCEPT !.escrow_token_account[a].amount = @ - amount,
                      !.sell_from_account[to] = @ + amount])

\* token::burn from the vault.
token_burn(L, a, amount) ==
    IF L.escrow_token_account[a].amount < amount THEN Err("TokenError::InsufficientFunds", L)
    ELSE Ok([L EXCEPT !.escrow_token_account[a].amount = @ - amount,
                      !.mint_supply = @ - amount])

\* token::close_account of the vault: only an empty account closes.
close_account(L, a) ==
    IF L.escrow_token_account[a].amount # 0 THEN Err("NonNativeHasBalance", L)
    ELSE Ok([L EXCEPT !.escrow_token_account[a] = NoVault])

\* Mutant: the closed escrow account keeps its data.
close_escrow_keeping_data(L, a) == [L EXCEPT !.escrow_account[a].init = FALSE]

\* AccountsClose::close (and the close= constraint) of the escrow account.
close_escrow(L, a) == [L EXCEPT !.escrow_account[a] = NoEscrow]

\* init_if_needed of the escrow account and of its vault.
init_if_needed(L, a) ==
    [L EXCEPT !.escrow_account[a].init = TRUE,
              !.escrow_token_account[a].init = TRUE]

---------------------------------------------------------------------------
(* The instructions.  Each gives its result and the accounts as it leaves    *)
(* them; the accounts of an Err are discarded by Commit.                    *)

\* The += of tender and tender_from_mint, and the bump_seed assignment.
add_cost_and_bump(L, a, bump_seed, total_purchase_cost) ==
    LET sum == add_assign(L.escrow_account[a].total_purchase_cost, total_purchase_cost)
    IN IF sum.panic THEN Err("Panic", L)
       ELSE Ok([L EXCEPT !.escrow_account[a].total_purchase_cost = sum.v,
                         !.escrow_account[a].bump_seed = bump_seed])

tender(L, seller, bump_seed, total_purchase_cost, asset_quantity_for_sale) ==
    LET a == PDA(seller, bump_seed)
        L0 == init_if_needed(L, a)
        chk == _check_tender_args(L0.escrow_account[a].total_purchase_cost,
                                  total_purchase_cost,
                                  L0.escrow_token_account[a].amount,
                                  asset_quantity_for_sale)
        t == transfer_to_vault(L0, a, seller, asset_quantity_for_sale)
    IN IF ProceedsOwner # seller THEN Err("ConstraintRaw", L0)
       ELSE IF chk # "Ok" THEN Err(chk, L0)
       ELSE IF t.result # "Ok" THEN t
       ELSE add_cost_and_bump(t.st, a, bump_seed, total_purchase_cost)

tender_from_mint(L, payer, bump_seed, total_purchase_cost, asset_quantity_for_sale) ==
    LET a == PDA(payer, bump_seed)
        L0 == init_if_needed(L, a)
        chk == _check_tender_args(L0.escrow_account[a].total_purchase_cost,
                                  total_purchase_cost,
                                  L0.escrow_token_account[a].amount,
                                  asset_quantity_for_sale)
        m == mint_to_vault(L0, a, asset_quantity_for_sale)
    IN IF chk # "Ok" THEN Err(chk, L0)
       ELSE IF m.result # "Ok" THEN m
       ELSE add_cost_and_bump(m.st, a, bump_seed, total_purchase_cost)

\* The third step of purchase_partial and the end of burn: reload the vault
\* and close vault and escrow account when it is empty.
close_if_empty(L, a) ==
    IF L.escrow_token_account[a].amount = 0
    THEN LET c == close_account(L, a)
         IN IF c.result # "Ok" THEN c ELSE Ok(close_escrow(c.st, a))
    ELSE Ok(L)

\* Mutant: the third step is left out, so nothing is closed.
purchase_partial_keeps_accounts(L, a, rent_payer, quantity_to_transfer) ==
    IF ~L.escrow_account[a].init THEN Err("AccountNotInitialized", L)
    ELSE IF PDA(rent_payer, L.escrow_account[a].bump_seed) # a THEN Err("ConstraintSeeds", L)
    ELSE
    LET purchase_cost == _get_purchase_cost(quantity_to_transfer,
                                            L.escrow_token_account[a].amount,
                                            L.escrow_account[a].total_purchase_cost)
        pay == transfer_payment(L, purchase_cost.cost)
        rest == checked_sub(L.escrow_account[a].total_purchase_cost, purchase_cost.cost)
        L1 == [pay.st EXCEPT !.escrow_account[a].total_purchase_cost = rest.v]
        rel == transfer_to_receiver(L1, a, quantity_to_transfer)
    IN IF purchase_cost.result # "Ok" THEN Err(purchase_cost.result, L)
       ELSE IF pay.result # "Ok" THEN pay
       ELSE IF ~rest.some THEN Err("InsufficientFunds", pay.st)
       ELSE rel

\* Mutant: total_purchase_cost is not reduced by the cost paid.
purchase_partial_no_decrement(L, a, rent_payer, quantity_to_transfer) ==
    IF ~L.escrow_account[a].init THEN Err("AccountNotInitialized", L)
    ELSE IF PDA(rent_payer, L.escrow_account[a].bump_seed) # a THEN Err("ConstraintSeeds", L)
    ELSE
    LET purchase_cost == _get_purchase_cost(quantity_to_transfer,
                                            L.escrow_token_account[a].amount,
                                            L.escrow_account[a].total_purchase_cost)
        pay == transfer_payment(L, purchase_cost.cost)
        rel == transfer_to_receiver(pay.st, a, quantity_to_transfer)
    IN IF purchase_cost.result # "Ok" THEN Err(purchase_cost.result, L)
       ELSE IF pay.result # "Ok" THEN pay
       ELSE IF rel.result # "Ok" THEN rel
       ELSE close_if_empty(rel.st, a)

\* Mutant: the payment transfer is left out.
purchase_partial_without_payment(L, a, rent_payer, quantity_to_transfer) ==
    IF ~L.escrow_account[a].init THEN Err("AccountNotInitialized", L)
    ELSE IF PDA(rent_payer, L.escrow_account[a].bump_seed) # a THEN Err("ConstraintSeeds", L)
    ELSE
    LET purchase_cost == _get_purchase_cost(quantity_to_transfer,
                                            L.escrow_token_account[a].amount,
                                            L.escrow_account[a].total_purchase_cost)
        rest == checked_sub(L.escrow_account[a].total_purchase_cost, purchase_cost.cost)
        L1 == [L EXCEPT !.escrow_account[a].total_purchase_cost = rest.v]
        rel == transfer_to_receiver(L1, a, quantity_to_transfer)
    IN IF purchase_cost.result # "Ok" THEN Err(purchase_cost.result, L)
       ELSE IF ~rest.some THEN Err("InsufficientFunds", L)
       ELSE IF rel.result # "Ok" THEN rel
       ELSE close_if_empty(rel.st, a)

purchase_partial(L, a, rent_payer, quantity_to_transfer) ==
    IF ~L.escrow_account[a].init THEN Err("AccountNotInitialized", L)
    ELSE IF PDA(rent_payer, L.escrow_account[a].bump_seed) # a THEN Err("ConstraintSeeds", L)
    ELSE
    LET purchase_cost == _get_purchase_cost(quantity_to_transfer,
                                            L.escrow_token_account[a].amount,
                                            L.escrow_account[a].total_purchase_cost)
        pay == transfer_payment(L, purchase_cost.cost)
        rest == checked_sub(L.escrow_account[a].total_purchase_cost, purchase_cost.cost)
        L1 == [pay.st EXCEPT !.escrow_account[a].total_purchase_cost = rest.v]
        rel == transfer_to_receiver(L1, a, quantity_to_transfer)
    IN IF purchase_cost.result # "Ok" THEN Err(purchase_cost.result, L)
       ELSE IF pay.result # "Ok" THEN pay
       ELSE IF ~rest.some THEN Err("InsufficientFunds", pay.st)
       ELSE IF rel.result # "Ok" THEN rel
       ELSE close_if_empty(rel.st, a)

purchase(L, a, rent_payer) ==
    LET quantity_remaining == L.escrow_token_account[a].amount
    IN purchase_partial(L, a, rent_payer, quantity_remaining)

\* Mutant: the escrow account is not closed (no close = seller).
cancel_keeps_record(L, a, seller) ==
    IF ~L.escrow_account[a].init THEN Err("AccountNotInitialized", L)
    ELSE IF PDA(seller, L.escrow_account[a].bump_seed) # a THEN Err("ConstraintSeeds", L)
    ELSE IF ProceedsOwner # seller THEN Err("ConstraintRaw", L)
    ELSE
    LET t == transfer_to_depositor(L, a, seller, L.escrow_token_account[a].amount)
        c == close_account(t.st, a)
    IN IF t.result # "Ok" THEN t ELSE c

cancel(L, a, seller) ==
    IF ~L.escrow_account[a].init THEN Err("AccountNotInitialized", L)
    ELSE IF PDA(seller, L.escrow_account[a].bump_seed) # a THEN Err("ConstraintSeeds", L)
    ELSE IF ProceedsOwner # seller THEN Err("ConstraintRaw", L)
    ELSE
    LET t == transfer_to_depositor(L, a, seller, L.escrow_token_account[a].amount)
        c == close_account(t.st, a)
    IN IF t.result # "Ok" THEN t
       ELSE IF c.result # "Ok" THEN c
       ELSE Ok(close_escrow(c.st, a))

\* Mutant: the burn lowers total_purchase_cost in proportion.
burn_adjusting_cost(L, a, rent_payer, quantity) ==
    IF ~L.escrow_account[a].init THEN Err("AccountNotInitialized", L)
    ELSE IF PDA(rent_payer, L.escrow_account[a].bump_seed) # a THEN Err("ConstraintSeeds", L)
    ELSE IF quantity = 0 \/ quantity > L.escrow_token_account[a].amount
        THEN Err("InvalidArgument", L)
    ELSE LET b == token_burn(L, a, quantity)
             kept == (L.escrow_account[a].total_purchase_cost
                        * (L.escrow_token_account[a].amount - quantity))
                     \div L.escrow_token_account[a].amount
         IN IF b.result # "Ok" THEN b
            ELSE close_if_empty([b.st EXCEPT !.escrow_account[a].total_purchase_cost = kept], a)

\* Mutant: no check that the quantity is above zero.
burn_accepting_zero(L, a, rent_payer, quantity) ==
    IF ~L.escrow_account[a].init THEN Err("AccountNotInitialized", L)
    ELSE IF PDA(rent_payer, L.escrow_account[a].bump_seed) # a THEN Err("ConstraintSeeds", L)
    ELSE IF quantity > L.escrow_token_account[a].amount
        THEN Err("InvalidArgument", L)
    ELSE LET b == token_burn(L, a, quantity)
         IN IF b.result # "Ok" THEN b ELSE close_if_empty(b.st, a)

\* Mutant: the seeds of the escrow account are not checked against the signer.
burn_by_anyone(L, a, rent_payer, quantity) ==
    IF ~L.escrow_account[a].init THEN Err("AccountNotInitialized", L)
    ELSE IF quantity = 0 \/ quantity > L.escrow_token_account[a].amount
        THEN Err("InvalidArgument", L)
    ELSE LET b == token_burn(L, a, quantity)
         IN IF b.result # "Ok" THEN b ELSE close_if_empty(b.st, a)

burn(L, a, rent_payer, quantity) ==
    IF ~L.escrow_account[a].init THEN Err("AccountNotInitialized", L)
    ELSE IF PDA(rent_payer, L.escrow_account[a].bump_seed) # a THEN Err("ConstraintSeeds", L)
    ELSE IF quantity = 0 \/ quantity > L.escrow_token_account[a].amount
        THEN Err("InvalidArgument", L)
    ELSE LET b == token_burn(L, a, quantity)
         IN IF b.result # "Ok" THEN b ELSE close_if_empty(b.st, a)

\* Mutant: the writes an instruction made before it returned Err are kept.
commit_keeping_writes(out) == out.st

\* The runtime keeps the writes of an instruction that returns Ok and
\* discards those of one that returns Err.
Commit(out) == IF out.result = "Ok" THEN out.st ELSE Ledger

---------------------------------------------------------------------------
(* History *)

NoFirst == [cost |-> 0, qty |-> 0]
NoAfter == [op |-> "none", created |-> FALSE]
NoCall == [fn |-> "none", qty |-> 0, total_qty |-> 0, total_cost |-> 0,
           done |-> FALSE, result |-> "none", cost |-> 0]

\* The instruction before this one, when it returned Ok on the same escrow
\* account.
After(a) == IF last.result = "Ok" /\ last.addr = a
            THEN [op |-> last.op, created |-> last.created]
            ELSE NoAfter

\* The record of one processed instruction: of one that returned Ok its
\* arguments, what it did to the record and what went before; of one that
\* returned Err its result alone.
Done(op, a, cost, qty, out) ==
    IF track # "last" THEN last
    ELSE IF out.result # "Ok"
    THEN [op |-> op, addr |-> a, cost |-> 0, qty |-> 0, result |-> out.result,
          created |-> FALSE, closed |-> FALSE, nth |-> 0, after |-> NoAfter]
    ELSE [op |-> op, addr |-> a, cost |-> cost, qty |-> qty, result |-> "Ok",
          created |-> ~escrow_account[a].init,
          closed |-> escrow_account[a].init /\ ~out.st.escrow_account[a].init,
          nth |-> IF op \in {"purchase", "purchase_partial"} THEN fills[a] + 1 ELSE 0,
          after |-> After(a)]

\* The accounts after the instruction.
Apply(out) ==
    \E n \in {Commit(out)} :
       /\ escrow_account' = n.escrow_account
       /\ escrow_token_account' = n.escrow_token_account
       /\ sell_from_account' = n.sell_from_account
       /\ buy_to_account' = n.buy_to_account
       /\ buy_from_account' = n.buy_from_account
       /\ seller_proceeds_account' = n.seller_proceeds_account
       /\ mint_supply' = n.mint_supply

\* The first deposit of the record at a, kept while the record is open.
FirstAfter(a, out, cost, qty) ==
    IF track # "first" \/ out.result # "Ok" THEN first
    ELSE IF ~out.st.escrow_account[a].init THEN [first EXCEPT ![a] = NoFirst]
    ELSE IF ~escrow_account[a].init THEN [first EXCEPT ![a] = [cost |-> cost, qty |-> qty]]
    ELSE first

\* A deposit or a burn starts a new run of fills.
FillsReset(a, out) ==
    IF track # "last" \/ out.result # "Ok" THEN fills ELSE [fills EXCEPT ![a] = 0]

\* A purchase is one more fill of the run, which ends when the record closes.
FillsAdd(a, out) ==
    IF track # "last" \/ out.result # "Ok" THEN fills
    ELSE IF ~out.st.escrow_account[a].init THEN [fills EXCEPT ![a] = 0]
    ELSE [fills EXCEPT ![a] = @ + 1]

\* The bump seeds the callers pass: the canonical one, or any of them in the
\* behaviours that follow the bump seed.
BumpArgs == IF track = "bumps" THEN Bumps ELSE {255}

\* The escrow accounts of the depositor the behaviour follows.
KeyAddrs == {PDA(depositor, b) : b \in BumpArgs}

\* No purchase_partial in flight.
NoTx == [pc |-> "idle", addr |-> PDA("seller", 255), qty |-> 0, cost |-> 0,
         result |-> "none", did |-> <<>>, st |-> <<>>]
Callers == {"buyer1", "buyer2"}

---------------------------------------------------------------------------
(* The state machine *)

InitAccounts ==
    /\ escrow_account = [a \in Addrs |-> NoEscrow]
    /\ escrow_token_account = [a \in Addrs |-> NoVault]
    /\ sell_from_account = [d \in Depositors |-> IF d = "seller" THEN SellerFunds ELSE 0]
    /\ buy_to_account = 0
    /\ buy_from_account = U64_MAX
    /\ seller_proceeds_account = 0
    /\ mint_supply = SellerFunds
    /\ overflow_checks \in BOOLEAN
    /\ depositor \in Depositors
    /\ first = [a \in Addrs |-> NoFirst]
    /\ fills = [a \in Addrs |-> 0]
    /\ last = [op |-> "none", addr |-> PDA("seller", 255), cost |-> 0, qty |-> 0, result |-> "none", created |-> FALSE,
               closed |-> FALSE, nth |-> 0, after |-> NoAfter]

Init ==
    /\ InitAccounts /\ track = "last" /\ pure_call = NoCall
    /\ tx = [c \in Callers |-> NoTx]

TenderOf(seller, bump_seed, cost, qty) ==
    \E a \in {PDA(seller, bump_seed)}, out \in {tender(Ledger, seller, bump_seed, cost, qty)} :
       /\ Apply(out)
       /\ first' = FirstAfter(a, out, cost, qty)
       /\ fills' = FillsReset(a, out)
       /\ last' = Done("tender", a, cost, qty, out)
       /\ UNCHANGED <<overflow_checks, track, depositor, pure_call, tx>>

TenderFromMintOf(payer, bump_seed, cost, qty) ==
    \E a \in {PDA(payer, bump_seed)},
       out \in {tender_from_mint(Ledger, payer, bump_seed, cost, qty)} :
       /\ mint_supply + qty <= SellerFunds + MintCap
       /\ Apply(out)
       /\ first' = FirstAfter(a, out, cost, qty)
       /\ fills' = FillsReset(a, out)
       /\ last' = Done("tender_from_mint", a, cost, qty, out)
       /\ UNCHANGED <<overflow_checks, track, depositor, pure_call, tx>>

PurchaseOf(a) ==
    \E out \in {purchase(Ledger, a, DepositorOf(a))} :
       /\ Apply(out)
       /\ first' = FirstAfter(a, out, 0, 0)
       /\ fills' = FillsAdd(a, out)
       /\ last' = Done("purchase", a, 0, escrow_token_account[a].amount, out)
       /\ UNCHANGED <<overflow_checks, track, depositor, pure_call, tx>>

PurchasePartialOf(a, qty) ==
    \E out \in {purchase_partial(Ledger, a, DepositorOf(a), qty)} :
       /\ Apply(out)
       /\ first' = FirstAfter(a, out, 0, 0)
       /\ fills' = FillsAdd(a, out)
       /\ last' = Done("purchase_partial", a, 0, qty, out)
       /\ UNCHANGED <<overflow_checks, track, depositor, pure_call, tx>>

CancelOf(a, seller) ==
    \E out \in {cancel(Ledger, a, seller)} :
       /\ Apply(out)
       /\ first' = FirstAfter(a, out, 0, 0)
       /\ fills' = FillsReset(a, out)
       /\ last' = Done("cancel", a, 0, escrow_token_account[a].amount, out)
       /\ UNCHANGED <<overflow_checks, track, depositor, pure_call, tx>>

BurnOf(a, rent_payer, qty) ==
    \E out \in {burn(Ledger, a, rent_payer, qty)} :
       /\ Apply(out)
       /\ first' = FirstAfter(a, out, 0, 0)
       /\ fills' = FillsReset(a, out)
       /\ last' = Done("burn", a, 0, qty, out)
       /\ UNCHANGED <<overflow_checks, track, depositor, pure_call, tx>>

\* The depositor the behaviour follows deposits with the canonical bump.
Tender ==
    \E bump_seed \in BumpArgs, cost \in CostArgs, qty \in QtyArgs :
        TenderOf(depositor, bump_seed, cost, qty)

TenderFromMint ==
    \E bump_seed \in BumpArgs, cost \in CostArgs, qty \in QtyArgs :
        TenderFromMintOf(depositor, bump_seed, cost, qty)

Purchase == \E a \in KeyAddrs : PurchaseOf(a)

PurchasePartial == \E a \in KeyAddrs, qty \in U64 : PurchasePartialOf(a, qty)

\* Any depositor may sign a cancel or a burn of the escrow account.
Cancel == \E a \in KeyAddrs, seller \in Depositors : CancelOf(a, seller)

Burn == \E a \in KeyAddrs, rent_payer \in Depositors, qty \in U64 : BurnOf(a, rent_payer, qty)

Next == Tender \/ TenderFromMint \/ Purchase \/ PurchasePartial \/ Cancel \/ Burn

Spec == Init /\ [][Next]_vars

\* The same instructions, keeping the first deposit of each record instead of
\* the last instruction.
InitRatio ==
    /\ InitAccounts /\ track = "first" /\ pure_call = NoCall
    /\ tx = [c \in Callers |-> NoTx]
SpecRatio == InitRatio /\ [][Next]_vars

\* The same instructions, called with any bump seed that gives an address.
InitBump ==
    /\ InitAccounts /\ track = "bumps" /\ pure_call = NoCall
    /\ tx = [c \in Callers |-> NoTx]
SpecBump == InitBump /\ [][Next]_vars

---------------------------------------------------------------------------
(* _get_purchase_cost on its own: every call with arguments in U64 *)

CostCalls ==
    {[fn |-> "_get_purchase_cost", qty |-> q, total_qty |-> tq, total_cost |-> tc,
      done |-> FALSE, result |-> "none", cost |-> 0] : q \in U64, tq \in U64, tc \in U64}

InitCost ==
    /\ InitAccounts
    /\ track = "pure"
    /\ overflow_checks = TRUE
    /\ depositor = "seller"
    /\ pure_call \in CostCalls
    /\ tx = [c \in Callers |-> NoTx]

ReturnCost ==
    /\ pure_call.fn = "_get_purchase_cost"
    /\ ~pure_call.done
    /\ \E r \in {_get_purchase_cost(pure_call.qty, pure_call.total_qty, pure_call.total_cost)} :
          pure_call' = [pure_call EXCEPT !.done = TRUE, !.result = r.result, !.cost = r.cost]
    /\ UNCHANGED <<escrow_account, escrow_token_account, sell_from_account, buy_to_account,
                   buy_from_account, seller_proceeds_account, mint_supply, overflow_checks,
                   track, depositor, first, fills, last, tx>>

NextCost == ReturnCost
SpecCost == InitCost /\ [][NextCost]_vars

---------------------------------------------------------------------------
(* _check_tender_args on its own: every call with arguments in U64 *)

CheckCalls ==
    {[fn |-> "_check_tender_args", current_cost |-> cc, add_cost |-> ac,
      current_qty |-> cq, add_qty |-> aq, done |-> FALSE, result |-> "none"] :
        cc \in U64, ac \in U64, cq \in U64, aq \in U64}

InitCheck ==
    /\ InitAccounts
    /\ track = "pure"
    /\ overflow_checks = TRUE
    /\ depositor = "seller"
    /\ pure_call \in CheckCalls
    /\ tx = [c \in Callers |-> NoTx]

ReturnCheck ==
    /\ pure_call.fn = "_check_tender_args"
    /\ ~pure_call.done
    /\ pure_call' = [pure_call EXCEPT !.done = TRUE,
                        !.result = _check_tender_args(pure_call.current_cost,
                                                      pure_call.add_cost,
                                                      pure_call.current_qty,
                                                      pure_call.add_qty)]
    /\ UNCHANGED <<escrow_account, escrow_token_account, sell_from_account, buy_to_account,
                   buy_from_account, seller_proceeds_account, mint_supply, overflow_checks,
                   track, depositor, first, fills, last, tx>>

NextCheck == ReturnCheck
SpecCheck == InitCheck /\ [][NextCheck]_vars

---------------------------------------------------------------------------
(* purchase_partial step by step, for two callers.  A transaction works on   *)
(* its own view of the accounts (st), which the runtime commits when the    *)
(* instruction returns Ok; the runtime runs no two transactions that write  *)
(* the same account at the same time.                                       *)

\* Mutant: the asset is released before the payment is made.
release_before_payment(pc) ==
    CASE pc = "cost" -> "release"
      [] pc = "release" -> "pay"
      [] pc = "pay" -> "decrement"
      [] pc = "decrement" -> "close"
      [] pc = "close" -> "done"

\* The statement of purchase_partial that follows the statement pc.
purchase_partial_then(pc) ==
    CASE pc = "cost" -> "pay"
      [] pc = "pay" -> "decrement"
      [] pc = "decrement" -> "release"
      [] pc = "release" -> "close"
      [] pc = "close" -> "done"

Failed(t, e) == [t EXCEPT !.pc = "failed", !.result = e]
Stepped(t, L) ==
    [t EXCEPT !.pc = purchase_partial_then(t.pc), !.did = Append(t.did, t.pc), !.st = L,
              !.result = IF purchase_partial_then(t.pc) = "done" THEN "Ok" ELSE t.result]

\* The statement at t.pc, on the accounts as the transaction sees them.
purchase_partial_step(t) ==
    LET a == t.addr
        L == t.st
    IN CASE t.pc = "cost" ->
              IF ~L.escrow_account[a].init THEN Failed(t, "AccountNotInitialized")
              ELSE IF PDA(DepositorOf(a), L.escrow_account[a].bump_seed) # a
                  THEN Failed(t, "ConstraintSeeds")
              ELSE LET purchase_cost == _get_purchase_cost(t.qty,
                                            L.escrow_token_account[a].amount,
                                            L.escrow_account[a].total_purchase_cost)
                   IN IF purchase_cost.result # "Ok" THEN Failed(t, purchase_cost.result)
                      ELSE [Stepped(t, L) EXCEPT !.cost = purchase_cost.cost]
         [] t.pc = "pay" ->
              LET pay == transfer_payment(L, t.cost)
              IN IF pay.result # "Ok" THEN Failed(t, pay.result) ELSE Stepped(t, pay.st)
         [] t.pc = "decrement" ->
              LET rest == checked_sub(L.escrow_account[a].total_purchase_cost, t.cost)
              IN IF ~rest.some THEN Failed(t, "InsufficientFunds")
                 ELSE Stepped(t, [L EXCEPT !.escrow_account[a].total_purchase_cost = rest.v])
         [] t.pc = "release" ->
              LET rel == transfer_to_receiver(L, a, t.qty)
              IN IF rel.result # "Ok" THEN Failed(t, rel.result) ELSE Stepped(t, rel.st)
         [] t.pc = "close" ->
              LET c == close_if_empty(L, a)
              IN IF c.result # "Ok" THEN Failed(t, c.result) ELSE Stepped(t, c.st)

\* Mutant: the runtime takes no lock.
account_never_locked(a) == FALSE

\* A transaction in flight holds the write lock of its escrow account.
account_locked(a) ==
    \E c \in Callers : tx[c].addr = a /\ tx[c].pc \notin {"idle", "requested"}

TxUnchanged ==
    UNCHANGED <<escrow_account, escrow_token_account, sell_from_account, buy_to_account,
                buy_from_account, seller_proceeds_account, mint_supply, overflow_checks,
                track, depositor, first, fills, last, pure_call>>

\* A caller sends a purchase_partial.
Request(c, a, qty) ==
    /\ tx[c].pc = "idle"
    /\ tx' = [tx EXCEPT ![c] = [NoTx EXCEPT !.pc = "requested", !.addr = a, !.qty = qty]]
    /\ TxUnchanged

\* The runtime starts it when no transaction in flight writes its accounts.
Begin(c) ==
    /\ tx[c].pc = "requested"
    /\ ~account_locked(tx[c].addr)
    /\ tx' = [tx EXCEPT ![c].pc = "cost", ![c].st = Ledger]
    /\ TxUnchanged

StepAt(c, pc) ==
    /\ tx[c].pc = pc
    /\ tx' = [tx EXCEPT ![c] = purchase_partial_step(tx[c])]
    /\ TxUnchanged

StepCost(c) == StepAt(c, "cost")
StepPay(c) == StepAt(c, "pay")
StepDecrement(c) == StepAt(c, "decrement")
StepRelease(c) == StepAt(c, "release")
StepClose(c) == StepAt(c, "close")

\* The instruction has returned: the runtime commits or discards its writes.
Return(c) ==
    /\ tx[c].pc \in {"done", "failed"}
    /\ Apply([result |-> tx[c].result, st |-> tx[c].st])
    /\ tx' = [tx EXCEPT ![c] = NoTx]
    /\ UNCHANGED <<overflow_checks, track, depositor, first, fills, last, pure_call>>

\* No transaction is in flight on the depositor's escrow accounts.
Quiet == \A a \in KeyAddrs : ~account_locked(a)

InitSteps ==
    /\ InitAccounts /\ track = "steps" /\ pure_call = NoCall
    /\ tx = [c \in Callers |-> NoTx]

NextSteps ==
    \/ Quiet /\ Tender
    \/ Quiet /\ TenderFromMint
    \/ \E c \in Callers :
          \/ \E a \in KeyAddrs, qty \in 1..(SellerFunds + MintCap) : Request(c, a, qty)
          \/ Begin(c)
          \/ StepCost(c) \/ StepPay(c) \/ StepDecrement(c) \/ StepRelease(c) \/ StepClose(c)
          \/ Return(c)

SpecSteps == InitSteps /\ [][NextSteps]_vars

---------------------------------------------------------------------------
(* Claims *)

Open(a) == escrow_account[a].init
Cost(a) == escrow_account[a].total_purchase_cost
Vault(a) == escrow_token_account[a].amount
Gone(a) == ~escrow_account[a].init /\ ~escrow_token_account[a].init

\* C1: a tender that creates the record, followed at once by purchase() by a
\* buyer who holds the cost, pays exactly the tendered cost to the proceeds
\* account, releases exactly the tendered quantity to the receiver and leaves
\* neither record nor vault.
C1_TenderThenPurchase ==
    [][\A a \in Addrs :
        ( /\ last.op = "tender" /\ last.result = "Ok" /\ last.created /\ last.addr = a
          /\ buy_from_account >= last.cost
          /\ last'.op = "purchase" /\ PurchaseOf(a) )
        => /\ last'.result = "Ok"
           /\ seller_proceeds_account' = seller_proceeds_account + last.cost
           /\ buy_from_account' = buy_from_account - last.cost
           /\ buy_to_account' = buy_to_account + last.qty
           /\ Gone(a)']_vars

C1_Witness ==
    /\ last.op = "purchase" /\ last.result = "Ok" /\ last.closed
    /\ last.after = [op |-> "tender", created |-> TRUE]
    /\ last.qty > 1 /\ seller_proceeds_account > 1

\* C5: _get_purchase_cost returns a cost only for 0 < qty <= total_qty, and
\* then total_qty * cost = qty * total_cost; it returns InvalidArgument when
\* qty is 0, exceeds total_qty, or qty * total_cost is no multiple of total_qty.
C5_CostExact ==
    pure_call.done =>
        LET qty == pure_call.qty
            total_qty == pure_call.total_qty
            total_cost == pure_call.total_cost
        IN /\ pure_call.result = "Ok" =>
                /\ 0 < qty /\ qty <= total_qty
                /\ total_qty * pure_call.cost = qty * total_cost
           /\ ( \/ qty = 0 \/ qty > total_qty
                \/ (qty * total_cost) % total_qty # 0 )
                => pure_call.result = "InvalidArgument"
           /\ pure_call.result \in {"Ok", "InvalidArgument"}

C5_Witness ==
    /\ pure_call.done /\ pure_call.result = "Ok"
    /\ pure_call.qty < pure_call.total_qty /\ pure_call.cost > 1

AccountsUnchanged ==
    UNCHANGED <<escrow_account, escrow_token_account, sell_from_account, buy_to_account,
                buy_from_account, seller_proceeds_account, mint_supply>>

\* The added pair is in the ratio of the record's cost to its vault balance.
Proportional(a, cost, qty) ==
    cost > 0 /\ qty > 0 /\ Vault(a) * cost = Cost(a) * qty

DepositOutcome(a, cost, qty) ==
    IF Proportional(a, cost, qty)
    THEN /\ last'.result = "Ok"
         /\ Cost(a)' = Cost(a) + cost
         /\ Vault(a)' = Vault(a) + qty
    ELSE /\ last'.result = "InvalidArgument"
         /\ AccountsUnchanged

\* C2: every deposit (tender by a depositor who owns the proceeds account and
\* holds the quantity, or tender_from_mint) whose pair is proportional to the
\* record's cost and vault balance succeeds and adds the pair to them, so that
\* they are the sums of the accepted costs and quantities; any other deposit
\* returns InvalidArgument and changes no account.
C2_DepositsAddUp ==
    [][\A b \in BumpArgs, cost \in CostArgs, qty \in QtyArgs :
        /\ ( /\ depositor = ProceedsOwner
             /\ sell_from_account[depositor] >= qty
             /\ last'.op = "tender"
             /\ TenderOf(depositor, b, cost, qty) )
           => DepositOutcome(PDA(depositor, b), cost, qty)
        /\ (last'.op = "tender_from_mint" /\ TenderFromMintOf(depositor, b, cost, qty))
           => DepositOutcome(PDA(depositor, b), cost, qty)]_vars

\* C3: an open record's vault balance and cost are always in the ratio of its
\* first deposit: vault * first_cost = total_purchase_cost * first_qty.
C3_UnitCostFixed ==
    \A a \in Addrs :
        Open(a) => Vault(a) * first[a].cost = Cost(a) * first[a].qty

\* C4: the record exists exactly when its vault does, then with a cost and a
\* balance above zero; total_purchase_cost = 0 iff the vault balance = 0.
C4_CostZeroIffVaultZero ==
    \A a \in Addrs :
        /\ escrow_account[a].init = escrow_token_account[a].init
        /\ (Cost(a) = 0) = (Vault(a) = 0)
        /\ Open(a) => Cost(a) > 0 /\ Vault(a) > 0

\* Every way of buying the `left` tokens of the vault at a in partial
\* purchases that succeed pays `owed` in all and closes record and vault with
\* the last purchase and no earlier one.
RECURSIVE FillsPay(_, _, _, _)
FillsPay(L, a, left, owed) ==
    \A q \in 1..left :
        LET out == purchase_partial(L, a, DepositorOf(a), q)
            paid == out.st.seller_proceeds_account - L.seller_proceeds_account
        IN out.result = "Ok" =>
              IF q = left
              THEN /\ paid = owed
                   /\ ~out.st.escrow_account[a].init
                   /\ ~out.st.escrow_token_account[a].init
              ELSE /\ out.st.escrow_account[a].init
                   /\ out.st.escrow_token_account[a].init
                   /\ FillsPay(out.st, a, left - q, owed - paid)

\* C6: from a record with cost C and balance Q, partial purchases that succeed
\* and sum to Q pay exactly C in all, in whatever order, and the last of them
\* and none before it closes record and vault.
C6_FillsSumToCost ==
    \A a \in Addrs : Open(a) => FillsPay(Ledger, a, Vault(a), Cost(a))

C6_Witness ==
    /\ last.op = "purchase_partial" /\ last.result = "Ok" /\ last.closed
    /\ last.nth >= 3

\* C7: a cancel that succeeds returns the whole vault balance to the
\* depositor's account, moves nothing to the receiver or the proceeds account,
\* and leaves neither record nor vault.
C7_CancelReturnsAll ==
    [][\A a \in Addrs, d \in Depositors :
        ( /\ last'.op = "cancel" /\ last'.addr = a /\ last'.result = "Ok"
          /\ CancelOf(a, d) )
        => /\ sell_from_account' =
                 [sell_from_account EXCEPT ![DepositorOf(a)] = @ + Vault(a)]
           /\ UNCHANGED <<buy_to_account, buy_from_account, seller_proceeds_account,
                          mint_supply>>
           /\ Gone(a)' /\ Cost(a)' = 0 /\ Vault(a)' = 0]_vars

C7_Witness ==
    /\ last.op = "cancel" /\ last.result = "Ok" /\ last.closed /\ last.qty > 1
    /\ sell_from_account[DepositorOf(last.addr)] > SellerFunds

\* C8: whenever a record exists, a cancel signed by its depositor succeeds.
C8_DepositorCanCancel ==
    [][\A a \in Addrs :
        ( /\ Open(a) /\ last'.op = "cancel" /\ last'.addr = a
          /\ CancelOf(a, DepositorOf(a)) ) => last'.result = "Ok"]_vars

\* C9: a burn of 0 < qty < vault balance that succeeds lowers the vault balance
\* and the supply by qty, credits no account and leaves total_purchase_cost as
\* it was; the purchase() after it pays that whole cost for what is left.
C9_BurnKeepsCost ==
    [][\A a \in Addrs :
        /\ \A q \in U64 :
             ( /\ 0 < q /\ q < Vault(a)
               /\ last'.op = "burn" /\ last'.addr = a /\ last'.result = "Ok"
               /\ BurnOf(a, DepositorOf(a), q) )
             => /\ Vault(a)' = Vault(a) - q
                /\ mint_supply' = mint_supply - q
                /\ UNCHANGED <<sell_from_account, buy_to_account, buy_from_account,
                               seller_proceeds_account>>
                /\ Open(a)' /\ Cost(a)' = Cost(a)
        /\ ( /\ last.op = "burn" /\ last.result = "Ok" /\ last.addr = a /\ Open(a)
             /\ last'.op = "purchase" /\ last'.result = "Ok"
             /\ PurchaseOf(a) )
           => /\ seller_proceeds_account' = seller_proceeds_account + Cost(a)
              /\ buy_to_account' = buy_to_account + Vault(a)
              /\ Gone(a)']_vars

C9_Witness ==
    /\ last.op = "purchase" /\ last.result = "Ok"
    /\ last.after = [op |-> "burn", created |-> FALSE]
    /\ seller_proceeds_account > last.qty

\* C10: on an existing record burn(0) and burn(qty > vault balance) return
\* InvalidArgument and change no account and no supply; burn(vault balance)
\* closes record and vault and credits no account.
C10_BurnBounds ==
    [][\A a \in Addrs, q \in U64 :
        ( /\ Open(a) /\ last'.op = "burn" /\ last'.addr = a
          /\ BurnOf(a, DepositorOf(a), q) )
        => /\ (q = 0 \/ q > Vault(a))
                => last'.result = "InvalidArgument" /\ AccountsUnchanged
           /\ (q > 0 /\ q = Vault(a))
                => /\ last'.result = "Ok" /\ Gone(a)'
                   /\ mint_supply' = mint_supply - q
                   /\ UNCHANGED <<sell_from_account, buy_to_account, buy_from_account,
                                  seller_proceeds_account>>]_vars

C10_Witness ==
    /\ last.op = "burn" /\ last.result = "InvalidArgument" /\ Open(last.addr)

\* C11: an instruction that returns an error (of the program, of the token
\* program, or a panic) leaves total_purchase_cost, the vault balance, the
\* existence of record and vault and every token balance as they were.
C11_ErrorChangesNothing ==
    [][(last'.result # "Ok") => AccountsUnchanged]_vars

\* A purchase the buyer cannot pay for.
C11_Witness ==
    /\ last.op \in {"purchase", "purchase_partial"}
    /\ last.result = "TokenError::InsufficientFunds"
    /\ Open(last.addr)

PurchaseOrder == <<"cost", "pay", "decrement", "release", "close">>
IsPrefix(s, t) == Len(s) <= Len(t) /\ s = SubSeq(t, 1, Len(s))
InFlight(c) == tx[c].pc \notin {"idle", "requested"}

\* C12: in a purchase the statements run in the order cost, payment,
\* decrement, release, close: once the asset has left the vault the payment
\* has reached the proceeds account and total_purchase_cost is reduced by it;
\* once total_purchase_cost is reduced the payment is made; record and vault
\* are closed only after the release, and exactly when it emptied the vault.
C12_PaymentBeforeRelease ==
    \A c \in Callers :
        InFlight(c) =>
        LET t == tx[c]
            a == t.addr
            paid == /\ t.st.seller_proceeds_account = seller_proceeds_account + t.cost
                    /\ t.st.buy_from_account = buy_from_account - t.cost
            decremented == t.st.escrow_account[a].total_purchase_cost = Cost(a) - t.cost
            released == /\ t.st.buy_to_account = buy_to_account + t.qty
                        /\ t.st.escrow_token_account[a].amount = Vault(a) - t.qty
            closed == ~t.st.escrow_account[a].init /\ ~t.st.escrow_token_account[a].init
        IN /\ IsPrefix(t.did, PurchaseOrder)
           /\ ( \/ t.st.buy_to_account # buy_to_account
                \/ t.st.escrow_token_account[a].amount # Vault(a) )
                => paid /\ decremented /\ released
           /\ (Open(a) /\ t.st.escrow_account[a].total_purchase_cost # Cost(a)) => paid
           /\ (Open(a) /\ closed) => paid /\ released /\ t.qty = Vault(a)
           /\ t.pc = "done" => /\ t.did = PurchaseOrder
                               /\ paid /\ released
                               /\ closed = (t.qty = Vault(a))

C12_Witness ==
    \E c \in Callers :
        /\ tx[c].pc = "done" /\ tx[c].cost > 1 /\ tx[c].qty < Vault(tx[c].addr)
        /\ tx[c].st.buy_to_account > buy_to_account

\* C20: a purchase takes effect as the whole instruction run on the accounts
\* as the transaction completed before it left them: its result and its
\* writes are those of purchase_partial on the accounts at the time it
\* commits, so that a purchase that succeeds takes no more than the vault
\* holds then, whatever other purchase was sent at the same time.
C20_OneAtATime ==
    [][\A c \in Callers :
        (tx[c].pc \in {"done", "failed"} /\ tx'[c].pc = "idle" /\ Return(c))
        => \E out \in {purchase_partial(Ledger, tx[c].addr, DepositorOf(tx[c].addr),
                                         tx[c].qty)} :
              /\ tx[c].result = out.result
              /\ Apply(out)
              /\ tx[c].result = "Ok" =>
                    /\ tx[c].qty <= Vault(tx[c].addr)
                    /\ buy_to_account' = buy_to_account + tx[c].qty]_vars

\* Two purchases of the same record sent at the same time that together ask
\* for more than the vault holds; the first is about to commit.
C20_Witness ==
    /\ tx["buyer1"].pc = "done" /\ tx["buyer2"].pc = "requested"
    /\ tx["buyer1"].addr = tx["buyer2"].addr
    /\ tx["buyer1"].qty < Vault(tx["buyer1"].addr)
    /\ tx["buyer1"].qty + tx["buyer2"].qty > Vault(tx["buyer1"].addr)

\* C13: the bump seed stored in an escrow account does not change for as long
\* as the account exists, whatever bump seed later deposits pass, and through
\* purchases and burns.
C13_BumpSeedFixed ==
    [][\A a \in Addrs :
        (Open(a) /\ Open(a)') => escrow_account[a]'.bump_seed = escrow_account[a].bump_seed]_vars

\* A record that took a second deposit while deposits with the other bump
\* seed were made for the same five seeds.
C13_Witness ==
    \E a, b \in Addrs :
        /\ DepositorOf(a) = DepositorOf(b) /\ BumpOf(a) # BumpOf(b)
        /\ Open(a) /\ Open(b)
        /\ Cost(a) > MaxCost
        /\ escrow_account[a].bump_seed = BumpOf(a)

\* C14: the five seeds identify the record: deposits that pass the same five
\* accounts go to one escrow account and vault whatever bump seed they pass,
\* so no two escrow accounts of the same five seeds are open together.
C14_OneRecordPerKey ==
    \A a, b \in Addrs :
        (Open(a) /\ Open(b) /\ DepositorOf(a) = DepositorOf(b)) => a = b

FreshRecord(a, cost, qty) ==
    /\ last'.result = "Ok"
    /\ Open(a)' /\ escrow_token_account[a]'.init
    /\ Cost(a)' = cost /\ Vault(a)' = qty

\* C15: while no record exists at an address (it was never opened, or a
\* purchase, cancel or burn closed it), purchase, cancel and burn fail and
\* change nothing, and a deposit of any cost > 0 and quantity > 0 the
\* depositor can fund succeeds and creates a record with exactly that cost
\* and a vault with exactly that quantity.
C15_ReopenAfterClose ==
    [][\A a \in Addrs :
        Gone(a) =>
          /\ ( /\ last'.addr = a
               /\ last'.op \in {"purchase", "purchase_partial", "cancel", "burn"} )
             => last'.result # "Ok" /\ AccountsUnchanged
          /\ \A cost \in 1..MaxCost, qty \in 1..MaxQty :
               /\ ( /\ last'.addr = a /\ last'.op = "tender"
                    /\ DepositorOf(a) = ProceedsOwner
                    /\ sell_from_account[DepositorOf(a)] >= qty
                    /\ TenderOf(DepositorOf(a), BumpOf(a), cost, qty) )
                  => FreshRecord(a, cost, qty)
               /\ ( /\ last'.addr = a /\ last'.op = "tender_from_mint"
                    /\ TenderFromMintOf(DepositorOf(a), BumpOf(a), cost, qty) )
                  => FreshRecord(a, cost, qty)]_vars

\* A deposit that opened a record again after a cancel had closed it.
C15_Witness ==
    /\ last.op \in {"tender", "tender_from_mint"} /\ last.result = "Ok" /\ last.created
    /\ last.after.op = "cancel"
    /\ last.cost > 1

\* C16: _check_tender_args returns Ok exactly when add_cost > 0, add_qty > 0
\* and current_qty * add_cost = current_cost * add_qty as integers, and
\* InvalidArgument otherwise; on an empty record (current_cost = current_qty
\* = 0) it returns Ok for every add_cost > 0 and add_qty > 0.
C16_RatioCheck ==
    (pure_call.fn = "_check_tender_args" /\ pure_call.done) =>
        LET c == pure_call
            ratio == /\ c.add_cost > 0 /\ c.add_qty > 0
                     /\ c.current_qty * c.add_cost = c.current_cost * c.add_qty
        IN /\ pure_call.result = (IF ratio THEN "Ok" ELSE "InvalidArgument")
           /\ (c.current_cost = 0 /\ c.current_qty = 0 /\ c.add_cost > 0 /\ c.add_qty > 0)
                => pure_call.result = "Ok"

\* A pair accepted on a record that is not empty.
C16_Witness ==
    /\ pure_call.fn = "_check_tender_args" /\ pure_call.done /\ pure_call.result = "Ok"
    /\ pure_call.current_cost > 1 /\ pure_call.current_qty > 1
    /\ pure_call.add_cost # pure_call.current_cost

\* What a purchase of q from the record at a, of cost C and vault balance Q,
\* does: it charges c with c * Q = q * C, and leaves cost C - c and balance
\* Q - q, in the same ratio, or nothing when q = Q; a q for which q * C is no
\* multiple of Q is refused with InvalidArgument.
PurchaseOutcome(a, q) ==
    LET C == Cost(a)
        Q == Vault(a)
        c == seller_proceeds_account' - seller_proceeds_account
    IN /\ last'.result = "Ok" =>
            /\ c * Q = q * C
            /\ buy_from_account' = buy_from_account - c
            /\ buy_to_account' = buy_to_account + q
            /\ q < Q => /\ Open(a)' /\ Cost(a)' = C - c /\ Vault(a)' = Q - q
                        /\ (Q - q) * C = (C - c) * Q
            /\ q = Q => Gone(a)'
       /\ (0 < q /\ q <= Q /\ (q * C) % Q # 0)
            => last'.result = "InvalidArgument" /\ AccountsUnchanged

\* C17: every purchase_partial(q) and purchase() on an open record has the
\* outcome above.
C17_PurchaseCharge ==
    [][\A a \in Addrs :
        Open(a) =>
          /\ \A q \in U64 :
               ( /\ last'.op = "purchase_partial" /\ last'.addr = a
                 /\ last'.result = "Ok" => last'.qty = q
                 /\ PurchasePartialOf(a, q) )
               => PurchaseOutcome(a, q)
          /\ (last'.op = "purchase" /\ last'.addr = a /\ PurchaseOf(a))
               => PurchaseOutcome(a, Vault(a))]_vars

\* The second partial purchase in a row, which leaves tokens in the vault.
C17_Witness ==
    /\ last.op = "purchase_partial" /\ last.result = "Ok" /\ ~last.closed
    /\ last.nth >= 2 /\ Open(last.addr)
    /\ seller_proceeds_account >= 2

\* C18: a deposit that succeeds leaves total_purchase_cost at the exact sum of
\* the cost before and the cost added, never a wrapped value, so a deposit
\* whose sum exceeds the largest u64 does not succeed; one that does not
\* succeed leaves record and vault as they were.
C18_DepositSumExact ==
    [][\A a \in Addrs :
        (last'.addr = a /\ last'.op \in {"tender", "tender_from_mint"})
        => /\ last'.result = "Ok" => Cost(a)' = Cost(a) + last'.cost
           /\ last'.result # "Ok" => AccountsUnchanged]_vars

\* C19: on every open record every quantity _get_purchase_cost accepts costs
\* more than 0 and no more than total_purchase_cost, and no purchase returns
\* the InsufficientFunds of the checked_sub.
C19_NoUnderflow ==
    /\ \A a \in Addrs :
         Open(a) =>
           \A q \in U64 :
              LET r == _get_purchase_cost(q, Vault(a), Cost(a))
              IN r.result = "Ok" => 0 < r.cost /\ r.cost <= Cost(a) /\ r.cost <= U64_MAX
    /\ last.result # "InsufficientFunds"

\* The sum of f[x] over the x in S, as the number of pairs <<x, i>> with
\* 1 <= i <= f[x].
SumOver(f, S) == Cardinality(UNION {{<<x, i>> : i \in 1..f[x]} : x \in S})

\* The asset held by the depositors, the vaults and the receiver, and the
\* payment tokens held by the buyer and the proceeds account.
AssetHeld ==
    SumOver(sell_from_account, Depositors)
      + SumOver([a \in Addrs |-> Vault(a)], Addrs) + buy_to_account
PaymentHeld == buy_from_account + seller_proceeds_account

\* C21: the asset held by depositors, vaults and receiver changes only by
\* what a tender_from_mint mints and a burn destroys; the payment tokens held
\* by buyer and proceeds account never change in sum; the receiver is
\* credited only by a purchase that succeeds, with the quantity that left
\* the vault, for which the cost c with c * balance = quantity *
\* total_purchase_cost went from the buyer to the proceeds account.
C21_CustodyConserved ==
    [][/\ AssetHeld' - AssetHeld =
            (IF last'.result = "Ok" /\ last'.op = "tender_from_mint" THEN last'.qty
             ELSE IF last'.result = "Ok" /\ last'.op = "burn" THEN 0 - last'.qty
             ELSE 0)
       /\ AssetHeld' = mint_supply'
       /\ PaymentHeld' = PaymentHeld
       /\ buy_to_account' # buy_to_account =>
            LET a == last'.addr
                q == buy_to_account' - buy_to_account
                c == seller_proceeds_account' - seller_proceeds_account
            IN /\ last'.op \in {"purchase", "purchase_partial"} /\ last'.result = "Ok"
               /\ q = last'.qty /\ q > 0
               /\ escrow_token_account'[a].amount = Vault(a) - q
               /\ c * Vault(a) = q * Cost(a)
               /\ buy_from_account' = buy_from_account - c]_vars

\* Tokens were minted into a vault or burned from it, and the receiver holds
\* tokens that were paid for.
C21_Witness ==
    /\ last.op \in {"purchase", "purchase_partial"} /\ last.result = "Ok"
    /\ buy_to_account > 0 /\ seller_proceeds_account > 1
    /\ mint_supply # SellerFunds

\* C22: a cancel or burn signed by any other than the depositor of the
\* escrow account's seeds fails and changes no account; tokens leave a vault
\* only in a purchase, to the receiver's account, in a cancel, to the
\* depositor's account, or in a burn, which lowers the supply.
C22_OnlyDepositorCancelsOrBurns ==
    [][\A a \in Addrs :
        /\ \A d \in Depositors \ {DepositorOf(a)} :
             /\ (last'.op = "cancel" /\ last'.addr = a /\ CancelOf(a, d))
                  => last'.result # "Ok" /\ AccountsUnchanged
             /\ \A q \in U64 :
                  (last'.op = "burn" /\ last'.addr = a /\ BurnOf(a, d, q))
                  => last'.result # "Ok" /\ AccountsUnchanged
        /\ Vault(a)' < Vault(a) =>
             LET q == Vault(a) - Vault(a)'
             IN /\ last'.addr = a /\ last'.result = "Ok"
                /\ \/ /\ last'.op \in {"purchase", "purchase_partial"}
                      /\ buy_to_account' = buy_to_account + q
                      /\ UNCHANGED <<sell_from_account, mint_supply>>
                   \/ /\ last'.op = "cancel"
                      /\ sell_from_account' =
                            [sell_from_account EXCEPT ![DepositorOf(a)] = @ + q]
                      /\ UNCHANGED <<buy_to_account, mint_supply>>
                   \/ /\ last'.op = "burn"
                      /\ mint_supply' = mint_supply - q
                      /\ UNCHANGED <<buy_to_account, sell_from_account>>]_vars

\* A cancel or a burn of an open record refused for its signer.
C22_Witness ==
    /\ last.op \in {"cancel", "burn"} /\ last.result = "ConstraintSeeds"
    /\ Open(last.addr) /\ Vault(last.addr) > 1

====
